---- MODULE Spec2Model ----
(***************************************************************************)
(* Workflow state machine of the transcription service:                    *)
(* WorkflowService (create / transition / auto-progression timers) on top  *)
(* of the Transcription collection, driven through WorkflowController.     *)
(*                                                                         *)
(* Granularity.  Node runs the code between two awaits atomically, so one  *)
(* action is one such run: a handler up to the point where its store       *)
(* write is issued, and the store write together with the continuation     *)
(* that follows it.  Time is counted in seconds; a timer callback runs    *)
(* in the second in which its delay elapses, store round trips may take    *)
(* any time.                                                               *)
(***************************************************************************)
EXTENDS Naturals, Integers, Sequences, FiniteSets, Bags, TLC

\* ---------------------------------------------------------------- bounds
MaxRecords == 1      \* documents ever inserted in the collection
MaxTime == 3         \* the clock stops advancing here
MaxManual == 1       \* PUT /workflow/:id/transition requests
MaxInFlight == 2     \* transition calls between their read and their write

\* ------------------------------------------------------------- constants
NoVal == "undefined"         \* JavaScript undefined / absent field
NoDate == -1                 \* a Date field that was never set

CREATE_DELAY == 2
REVIEW_DELAY == 3
APPROVAL_DELAY == 5

Statuses == {"transcription", "review", "approval", "completed", "rejected"}

\* (variant: review may be confirmed again)
validTransitionsWithStay ==
    [s \in Statuses |->
        CASE s = "transcription" -> <<"review", "rejected">>
          [] s = "review"        -> <<"approval", "rejected", "transcription",
                                      "review">>
          [] s = "approval"      -> <<"completed", "rejected">>
          [] s = "completed"     -> <<>>
          [] s = "rejected"      -> <<"transcription">>]

validTransitions ==
    [s \in Statuses |->
        CASE s = "transcription" -> <<"review", "rejected">>
          [] s = "review"        -> <<"approval", "rejected", "transcription">>
          [] s = "approval"      -> <<"completed", "rejected">>
          [] s = "completed"     -> <<>>
          [] s = "rejected"      -> <<"transcription">>]

\* Array.prototype.includes
includes(arr, x) == \E i \in 1..Len(arr) : arr[i] = x

\* the statuses WorkflowController.transitionWorkflow lets through
controllerValidStatuses == <<"review", "approval", "completed", "rejected">>

\* ---------------------------------------------------------------- inputs
AudioUrls == {"https://example.com/sample.mp3"}
LanguageInputs == {NoVal}
NewStatusInputs == Statuses \cup {NoVal}
CommentInputs == {NoVal}
ReviewerInputs == {"test-user"}
IdInputs == 1..(MaxRecords + 1)
\* the same, and a string that is no ObjectId ("abc")
BadId == -1
LookupIdInputs == IdInputs \cup {BadId}

\* ----------------------------------------------------------------- state
VARIABLES
    store,      \* the Transcription collection: document _id = position
    timers,     \* bag of pending setTimeout callbacks [id, due]
    firings,    \* bag of autoProgressWorkflow runs between their two reads
    calls,      \* bag of transitionWorkflow calls awaiting their save
    now,        \* the clock
    response,   \* the HTTP response sent in the last step, if any
    succ,       \* per _id: transitionWorkflow calls that returned
    nManual,    \* PUT requests received so far
    listing     \* the list request with one of its two reads answered

vars == <<store, timers, firings, calls, now, response, succ, nManual,
         listing>>

InFlight == BagCardinality(firings) + BagCardinality(calls)

Ids == 1..Len(store)

HistoryEntry(status, ts, comment, reviewedBy) ==
    [status |-> status, timestamp |-> ts, comment |-> comment,
     reviewedBy |-> reviewedBy]

\* Schema defaults applied by `new Transcription({...})`
SchemaDefault(field) ==
    CASE field = "workflowStatus"  -> "transcription"
      [] field = "workflowHistory" -> <<>>
      [] field = "language"        -> "en-US"
      [] field = "source"          -> "mock"

\* (variant: canTransition left empty)
formatWithoutTargets(id, doc) ==
    [id |-> id,
     currentStatus |-> doc.workflowStatus,
     workflowHistory |-> doc.workflowHistory,
     canTransition |-> <<>>]

formatWorkflowResponse(id, doc) ==
    LET currentStatus == IF doc.workflowStatus = NoVal THEN "transcription"
                         ELSE doc.workflowStatus
    IN  [id |-> id,
         currentStatus |-> currentStatus,
         workflowHistory |-> doc.workflowHistory,
         canTransition |-> validTransitions[currentStatus]]

Response(op, id, code, error, data) ==
    [op |-> op, id |-> id, code |-> code, error |-> error, data |-> data]

\* no body, or a body without data
NoView == [id |-> 0, currentStatus |-> NoVal, workflowHistory |-> <<>>,
           canTransition |-> <<>>]

NoResponse == Response("none", 0, 0, NoVal, NoView)

Init ==
    /\ store = <<>>
    /\ timers = EmptyBag
    /\ firings = EmptyBag
    /\ calls = EmptyBag
    /\ now = 0
    /\ response = NoResponse
    /\ succ = [i \in 1..MaxRecords |-> 0]
    /\ nManual = 0
    /\ listing = {}

Timer(id, delay) == [id |-> id, due |-> now + delay]

AddBag(b, e) == b (+) SetToBag({e})
RemoveBag(b, e) == b (-) SetToBag({e})

\* generateMockTranscription: one of the sample sentences of the language
MockText == "mock transcription"

\* ------------------------------------------------------- POST /workflow
\* WorkflowService.createWorkflow, request already validated
WorkflowDoc(audioUrl, language) ==
    [audioUrl |-> audioUrl,
     transcription |-> MockText,
     language |-> IF language = NoVal THEN "en-US" ELSE language,
     source |-> "mock",
     workflowStatus |-> "transcription",
     workflowHistory |->
         <<HistoryEntry("transcription", now,
                        "Workflow initiated - transcription completed",
                        NoVal)>>,
     createdAt |-> now,
     updatedAt |-> NoDate]

CreateWorkflow(audioUrl, language) ==
    /\ Len(store) < MaxRecords
    /\ LET doc == WorkflowDoc(audioUrl, language)
           id == Len(store) + 1
       IN  /\ store' = Append(store, doc)
           /\ timers' = AddBag(timers, Timer(id, CREATE_DELAY))
           /\ response' = Response("create", id, 201, NoVal,
                                   formatWorkflowResponse(id, doc))
    /\ UNCHANGED <<firings, calls, now, succ, nManual, listing>>

\* (variant: the callback is set before the save is awaited)
CreateWorkflowFailTimerFirst(audioUrl, language, cause) ==
    /\ Len(store) < MaxRecords
    /\ response' = Response("create", 0, 500, cause, NoView)
    /\ timers' = AddBag(timers, Timer(Len(store) + 1, CREATE_DELAY))
    /\ UNCHANGED <<store, firings, calls, now, succ, nManual, listing>>

\* mockAudioDownload throws, or transcription.save() rejects
CreateWorkflowFail(audioUrl, language, cause) ==
    /\ Len(store) < MaxRecords
    /\ response' = Response("create", 0, 500, cause, NoView)
    /\ UNCHANGED <<store, timers, firings, calls, now, succ, nManual, listing>>

\* ----------------------------------- WorkflowController.createWorkflow
\* A value of the JSON body.  Strings are kept as their characters, so that
\* the regular expressions can be applied to them.
JsString(chars) == [type |-> "string", chars |-> chars, num |-> 0]
JsNumber(n) == [type |-> "number", chars |-> <<>>, num |-> n]
JsUndefined == [type |-> "undefined", chars |-> <<>>, num |-> 0]

\* ToBoolean
Truthy(v) ==
    CASE v.type = "string" -> v.chars # <<>>
      [] v.type = "number" -> v.num # 0
      [] OTHER             -> FALSE

LowerAlphabet ==
    <<"a", "b", "c", "d", "e", "f", "g", "h", "i", "j", "k", "l", "m",
      "n", "o", "p", "q", "r", "s", "t", "u", "v", "w", "x", "y", "z">>
UpperAlphabet ==
    <<"A", "B", "C", "D", "E", "F", "G", "H", "I", "J", "K", "L", "M",
      "N", "O", "P", "Q", "R", "S", "T", "U", "V", "W", "X", "Y", "Z">>

IsLower(c) == \E i \in DOMAIN LowerAlphabet : LowerAlphabet[i] = c
IsUpper(c) == \E i \in DOMAIN UpperAlphabet : UpperAlphabet[i] = c
ToLowerCase(c) ==
    IF IsUpper(c)
    THEN LowerAlphabet[CHOOSE i \in DOMAIN UpperAlphabet : UpperAlphabet[i] = c]
    ELSE c

LineTerminators == {"\n", "\r"}
Whitespace == {" ", "\t"} \cup LineTerminators     \* \s

\* /^(https?|ftp):\/\/[^\s/$.?#].[^\s]*$/i .test(u)
urlRegexTest(u) ==
    \E scheme \in {<<"h", "t", "t", "p">>, <<"h", "t", "t", "p", "s">>,
                   <<"f", "t", "p">>} :
        LET n == Len(scheme)
        IN  /\ Len(u) >= n + 5
            /\ \A i \in 1..n : ToLowerCase(u[i]) = scheme[i]
            /\ u[n + 1] = ":" /\ u[n + 2] = "/" /\ u[n + 3] = "/"
            /\ u[n + 4] \notin Whitespace \cup {"/", "$", ".", "?", "#"}
            /\ u[n + 5] \notin LineTerminators
            /\ \A i \in (n + 6)..Len(u) : u[i] \notin Whitespace

\* (variant: the test is against en-US only)
langRegexEnUsOnly(l) == l = <<"e", "n", "-", "U", "S">>

\* /^[a-z]{2}-[A-Z]{2}$/ .test(l)
langRegexTest(l) ==
    /\ Len(l) = 5
    /\ IsLower(l[1]) /\ IsLower(l[2])
    /\ l[3] = "-"
    /\ IsUpper(l[4]) /\ IsUpper(l[5])

\* the characters as one string
RECURSIVE Join(_)
Join(chars) == IF chars = <<>> THEN "" ELSE Head(chars) \o Join(Tail(chars))

\* the checks of the controller, in order: the error of the 400 response,
\* or "ok"
PostValidation(audioUrl, language) ==
    IF ~Truthy(audioUrl) \/ audioUrl.type # "string"
    THEN "audioUrl is required and must be a string"
    ELSE IF ~urlRegexTest(audioUrl.chars)
    THEN "Invalid audioUrl format"
    ELSE IF Truthy(language) /\ language.type # "string"
    THEN "language must be a string"
    ELSE IF Truthy(language) /\ ~langRegexTest(language.chars)
    THEN "language must be in format xx-XX (e.g., en-US, fr-FR)"
    ELSE "ok"

\* POST /workflow with body {audioUrl, language}
PostWorkflow(audioUrl, language) ==
    LET err == PostValidation(audioUrl, language)
    IN  IF err # "ok"
        THEN /\ response' = Response("create", 0, 400, err, NoView)
             /\ UNCHANGED <<store, timers, firings, calls, now, succ, nManual, listing>>
        ELSE LET u == Join(audioUrl.chars)
                 l == IF Truthy(language) THEN Join(language.chars) ELSE NoVal
             IN  \/ CreateWorkflow(u, l)
                 \/ \E cause \in {"Audio download failed - network timeout",
                                  "save failed"} :
                        CreateWorkflowFail(u, l, cause)

PostUrlInputs ==
    { JsUndefined, JsNumber(42), JsString(<<>>),
      JsString(<<"n", "o", "t", "-", "a", "-", "u", "r", "l">>),
      JsString(<<"h", "t", "t", "p", ":", "/", "/">>),
      JsString(<<"h", "t", "t", "p", "s", ":", "/", "/", "a">>),
      JsString(<<"h", "t", "t", "p", "s", ":", "/", "/", ".", "a", "b">>),
      JsString(<<"f", "t", "p", ":", "/", "/", "f", "/", "x", " ", "y">>),
      JsString(<<"h", "t", "t", "p", "s", ":", "/", "/", "e", ".", "c", "o",
                 "/", "a">>),
      JsString(<<"F", "T", "P", ":", "/", "/", "a", "b">>) }

PostLanguageInputs ==
    { JsUndefined, JsNumber(42), JsNumber(0), JsString(<<>>),
      JsString(<<"x", "x">>),
      JsString(<<"E", "N", "-", "u", "s">>),
      JsString(<<"e", "n", "-", "U", "S", "A">>),
      JsString(<<"e", "n", "-", "U", "S">>),
      JsString(<<"f", "r", "-", "F", "R">>),
      JsString(<<"e", "s", "-", "E", "S">>) }

\* ---------------------------------------------------- POST /transcription
\* TranscriptionService.createTranscription: no workflow fields are given,
\* the schema fills them in.
CreateTranscription(audioUrl, language) ==
    /\ Len(store) < MaxRecords
    /\ LET lang == IF language = NoVal THEN "en-US" ELSE language
           doc == [audioUrl |-> audioUrl,
                   transcription |-> MockText,
                   language |-> lang,
                   source |-> "mock",
                   workflowStatus |-> SchemaDefault("workflowStatus"),
                   workflowHistory |-> SchemaDefault("workflowHistory"),
                   createdAt |-> now,
                   updatedAt |-> NoDate]
       IN  /\ store' = Append(store, doc)
           /\ response' = Response("createTranscription", Len(store) + 1, 201,
                                   NoVal, NoView)
    /\ UNCHANGED <<timers, firings, calls, now, succ, nManual, listing>>

\* ---------------------------------------------- POST /azure-transcription
\* AzureService.retryConfig (delays in milliseconds)
maxAttempts == 3
baseDelay == 1000
maxDelay == 8000

RECURSIVE Pow2(_)
Pow2(n) == IF n <= 0 THEN 1 ELSE 2 * Pow2(n - 1)

\* (variant: the same delay before every retry)
calculateDelayConstant(attempt) ==
    LET delay == baseDelay
    IN  IF delay < maxDelay THEN delay ELSE maxDelay

\* AzureService.calculateDelay
calculateDelay(attempt) ==
    LET delay == baseDelay * Pow2(attempt - 1)
    IN  IF delay < maxDelay THEN delay ELSE maxDelay

\* What a run of withRetry did: whether it returned, how many times it
\* invoked the operation, the attempt whose result it returned or whose
\* error it threw (0: none), and the delays it waited
RetryRun(ok, invoked, result, thrown, waits) ==
    [ok |-> ok, invoked |-> invoked, result |-> result, thrown |-> thrown,
     waits |-> waits]

\* no run of withRetry
NoRetry == RetryRun(FALSE, 0, 0, 0, <<>>)

\* (variant: the loop goes on after the last attempt allowed)
RECURSIVE withRetryLoopOneMore(_, _, _, _)
withRetryLoopOneMore(outcomes, attempt, lastError, waits) ==
    IF attempt <= maxAttempts + 1
    THEN IF outcomes[attempt]
         THEN RetryRun(TRUE, attempt, attempt, 0, waits)
         ELSE IF attempt = maxAttempts + 1
              THEN RetryRun(FALSE, attempt, 0, attempt, waits)
              ELSE withRetryLoopOneMore(outcomes, attempt + 1, attempt,
                                        Append(waits, calculateDelay(attempt)))
    ELSE RetryRun(FALSE, attempt - 1, 0, lastError, waits)

\* AzureService.withRetry, the for loop from `attempt` on: outcomes[k] says
\* whether the k-th invocation of the operation resolves, lastError is the
\* attempt whose error is held
RECURSIVE withRetryLoop(_, _, _, _)
withRetryLoop(outcomes, attempt, lastError, waits) ==
    IF attempt <= maxAttempts
    THEN IF outcomes[attempt]
         THEN RetryRun(TRUE, attempt, attempt, 0, waits)
         ELSE IF attempt = maxAttempts
              THEN RetryRun(FALSE, attempt, 0, attempt, waits)
              ELSE withRetryLoop(outcomes, attempt + 1, attempt,
                                 Append(waits, calculateDelay(attempt)))
    ELSE RetryRun(FALSE, attempt - 1, 0, lastError, waits)

withRetry(outcomes) == withRetryLoop(outcomes, 1, 0, <<>>)

\* the text callAzureSpeechService resolves with, and the text of
\* fallbackToMockTranscription
AzureText == "azure transcription"
FallbackText ==
    "This is a fallback transcription generated when Azure Speech Service is unavailable."

\* The document both paths of AzureService build: no workflow field is
\* given, the schema fills them in
AzureDoc(audioUrl, language, source) ==
    [audioUrl |-> audioUrl,
     transcription |-> IF source = "azure" THEN AzureText ELSE FallbackText,
     language |-> IF language = NoVal THEN "en-US" ELSE language,
     source |-> source,
     workflowStatus |-> SchemaDefault("workflowStatus"),
     workflowHistory |-> SchemaDefault("workflowHistory"),
     createdAt |-> now,
     updatedAt |-> NoDate]

\* What the world does to one request: whether the download resolves, what
\* each invocation of the speech call would do, whether the save of the
\* azure record and the save of the fallback record resolve
AzureEnvs ==
    [download : BOOLEAN,
     speech : [1..(maxAttempts + 1) -> BOOLEAN],
     save : BOOLEAN,
     fallbackSave : BOOLEAN]

\* the body of the answer, with the run of withRetry behind it
AzureAnswer(message, run) == [message |-> message, run |-> run]

\* (variant: the error of the speech path is thrown to the controller)
PostAzureTranscriptionNoFallback(audioUrl, language, env) ==
    /\ Len(store) < MaxRecords
    /\ IF audioUrl = NoVal
       THEN /\ response' = Response("azure", 0, 400, "audioUrl is required",
                                    AzureAnswer(NoVal, NoRetry))
            /\ UNCHANGED store
       ELSE LET run == IF env.download THEN withRetry(env.speech) ELSE NoRetry
                id == Len(store) + 1
            IN  IF run.ok /\ env.save
                THEN /\ store' = Append(store,
                                        AzureDoc(audioUrl, language, "azure"))
                     /\ response' = Response("azure", id, 201, NoVal,
                            AzureAnswer("Transcription saved", run))
                ELSE /\ UNCHANGED store
                     /\ response' = Response("azure", 0, 500,
                            "Failed to create Azure transcription",
                            AzureAnswer(NoVal, run))
    /\ UNCHANGED <<timers, firings, calls, now, succ, nManual, listing>>

\* TranscriptionController.createAzureTranscription with
\* AzureService.createAzureTranscription and fallbackToMockTranscription.
\* The request reads nothing of the collection and writes it once.
PostAzureTranscription(audioUrl, language, env) ==
    /\ Len(store) < MaxRecords
    /\ IF audioUrl = NoVal
       THEN /\ response' = Response("azure", 0, 400, "audioUrl is required",
                                    AzureAnswer(NoVal, NoRetry))
            /\ UNCHANGED store
       ELSE LET run == IF env.download THEN withRetry(env.speech) ELSE NoRetry
                id == Len(store) + 1
            IN  IF run.ok /\ env.save
                THEN /\ store' = Append(store,
                                        AzureDoc(audioUrl, language, "azure"))
                     /\ response' = Response("azure", id, 201, NoVal,
                            AzureAnswer("Transcription saved", run))
                ELSE IF env.fallbackSave
                THEN /\ store' = Append(store,
                                        AzureDoc(audioUrl, language, "mock"))
                     /\ response' = Response("azure", id, 201, NoVal,
                            AzureAnswer("Transcription saved (fallback mode)",
                                        run))
                ELSE /\ UNCHANGED store
                     /\ response' = Response("azure", 0, 500,
                            "Failed to create Azure transcription",
                            AzureAnswer(NoVal, run))
    /\ UNCHANGED <<timers, firings, calls, now, succ, nManual, listing>>

\* The bodies of the azure requests (`new URL` accepts the URLs given)
AzureUrlInputs == {NoVal, "https://example.com/azure-sample.mp3"}
AzureLanguageInputs == {NoVal}

\* ------------------------------------------ WorkflowService.transitionWorkflow
\* a call that has issued its save: what it read and the document it holds
Call(id, newStatus, origin, readStatus, doc) ==
    [id |-> id, newStatus |-> newStatus, origin |-> origin,
     readStatus |-> readStatus, doc |-> doc]

\* an autoProgressWorkflow run that has chosen nextStatus
Firing(id, readStatus) == [id |-> id, readStatus |-> readStatus]

\* findById casts its argument to an ObjectId and rejects with a CastError
\* when the string is not one (here: the ids that are not positive)
IsObjectId(id) == id > 0

\* findById and the null check that follows it
FindByIdError(id) ==
    IF ~IsObjectId(id) THEN "Cast to ObjectId failed"
    ELSE IF id \notin Ids THEN "Transcription not found"
    ELSE "ok"

\* (variant: the target is only required to differ from the current status)
TransitionCheckAnyOther(id, newStatus) ==
    IF ~IsObjectId(id) THEN "Cast to ObjectId failed"
    ELSE IF id \notin Ids THEN "Transcription not found"
    ELSE IF store[id].workflowStatus = NoVal
         THEN "No workflow status found for this transcription"
    ELSE IF store[id].workflowStatus = newStatus
         THEN "Invalid transition"
    ELSE "ok"

\* findById and the checks before the update: the message of the Error
\* thrown, or "ok"
TransitionCheck(id, newStatus) ==
    IF ~IsObjectId(id) THEN "Cast to ObjectId failed"
    ELSE IF id \notin Ids THEN "Transcription not found"
    ELSE IF store[id].workflowStatus = NoVal
         THEN "No workflow status found for this transcription"
    ELSE IF ~includes(validTransitions[store[id].workflowStatus], newStatus)
         THEN "Invalid transition"
    ELSE "ok"

\* the in-memory document after the assignments and the push
TransitionUpdate(doc, newStatus, comment, reviewedBy) ==
    [doc EXCEPT !.workflowStatus = newStatus,
                !.updatedAt = now,
                !.workflowHistory =
                    Append(@, HistoryEntry(newStatus, now, comment, reviewedBy))]

\* the catch block of WorkflowController.transitionWorkflow
StatusCodeOf(error) ==
    IF error = "Transcription not found" THEN 404
    ELSE IF error = "Invalid transition" THEN 400
    ELSE 500

Last(seq) == seq[Len(seq)]

\* (variant: the status is written, the pushed entry is not)
SaveStatusOnly(stored, doc) ==
    [stored EXCEPT !.workflowStatus = doc.workflowStatus,
                   !.updatedAt = doc.updatedAt]

\* (variant: the whole in-memory document replaces the stored one)
SaveOverwrite(stored, doc) == doc

(* variant: the save refreshes createdAt as well *)
SaveDeltaTouchCreated(stored, doc) ==
    [stored EXCEPT !.workflowStatus = doc.workflowStatus,
                   !.updatedAt = doc.updatedAt,
                   !.createdAt = doc.updatedAt,
                   !.workflowHistory = Append(@, Last(doc.workflowHistory))]

\* transcription.save() of a loaded document sends its changes only:
\* $set of the assigned paths and $push of the pushed entry
SaveDelta(stored, doc) ==
    [stored EXCEPT !.workflowStatus = doc.workflowStatus,
                   !.updatedAt = doc.updatedAt,
                   !.workflowHistory = Append(@, Last(doc.workflowHistory))]

\* (variant: the else branch sets a callback for every other target)
ScheduleAfterAny(id, newStatus) ==
    IF newStatus = "review" THEN AddBag(timers, Timer(id, REVIEW_DELAY))
    ELSE AddBag(timers, Timer(id, APPROVAL_DELAY))

\* (variant: no callback is set after the move to approval)
ScheduleAfterReviewOnly(id, newStatus) ==
    IF newStatus = "review" THEN AddBag(timers, Timer(id, REVIEW_DELAY))
    ELSE timers

\* the setTimeout calls that follow a successful save
ScheduleAfter(id, newStatus) ==
    IF newStatus = "review" THEN AddBag(timers, Timer(id, REVIEW_DELAY))
    ELSE IF newStatus = "approval" THEN AddBag(timers, Timer(id, APPROVAL_DELAY))
    ELSE timers

\* ------------------------------------------- PUT /workflow/:id/transition
\* WorkflowController.transitionWorkflow up to the point where
\* transitionWorkflow awaits its save
PutTransition(id, newStatus, comment, reviewedBy) ==
    /\ nManual < MaxManual
    /\ nManual' = nManual + 1
    /\ IF newStatus = NoVal
       THEN /\ response' = Response("transition", 0, 400,
                                    "newStatus is required", NoView)
            /\ UNCHANGED calls
       ELSE IF ~includes(controllerValidStatuses, newStatus)
       THEN /\ response' = Response("transition", 0, 400,
                                    "Invalid status", NoView)
            /\ UNCHANGED calls
       ELSE LET err == TransitionCheck(id, newStatus)
            IN  IF err # "ok"
                THEN /\ response' = Response("transition", 0,
                                             StatusCodeOf(err), err, NoView)
                     /\ UNCHANGED calls
                ELSE /\ InFlight < MaxInFlight
                     /\ calls' = AddBag(calls,
                           Call(id, newStatus, "manual",
                                store[id].workflowStatus,
                                TransitionUpdate(store[id], newStatus,
                                                 comment, reviewedBy)))
                     /\ response' = NoResponse
    /\ UNCHANGED <<store, timers, firings, now, succ, listing>>

\* the store applies the write; the rest of transitionWorkflow runs (a timer
\* run has no caller to answer: autoProgressWorkflow drops the result)
Save(c) ==
    /\ c \in BagToSet(calls)
    /\ calls' = RemoveBag(calls, c)
    /\ store' = [store EXCEPT ![c.id] = SaveDelta(@, c.doc)]
    /\ timers' = ScheduleAfter(c.id, c.newStatus)
    /\ succ' = [succ EXCEPT ![c.id] = @ + 1]
    /\ response' = IF c.origin = "manual"
                   THEN Response("transition", c.id, 200, NoVal,
                                 formatWorkflowResponse(c.id, c.doc))
                   ELSE NoResponse
    /\ UNCHANGED <<firings, now, nManual, listing>>

(* variant: the write reached the store before save() rejected *)
SaveFailWritten(c) ==
    /\ c \in BagToSet(calls)
    /\ calls' = RemoveBag(calls, c)
    /\ store' = [store EXCEPT ![c.id] = SaveDelta(@, c.doc)]
    /\ response' = IF c.origin = "manual"
                   THEN Response("transition", 0, 500, "save failed", NoView)
                   ELSE NoResponse
    /\ UNCHANGED <<timers, firings, now, succ, nManual, listing>>

\* transcription.save() rejects: the error reaches the caller (manual) or
\* the catch block of autoProgressWorkflow (timer)
SaveFail(c) ==
    /\ c \in BagToSet(calls)
    /\ calls' = RemoveBag(calls, c)
    /\ response' = IF c.origin = "manual"
                   THEN Response("transition", 0, 500, "save failed", NoView)
                   ELSE NoResponse
    /\ UNCHANGED <<store, timers, firings, now, succ, nManual, listing>>

\* ----------------------------------------------------- GET /workflow/:id
\* the catch block of WorkflowController.getWorkflowStatus
StatusCodeOfGet(error) ==
    IF error = "Transcription not found" THEN 404 ELSE 500

(* variant: reading a workflow sets a progression callback for it *)
GetWorkflowStatusScheduling(id) ==
    /\ LET err == FindByIdError(id)
       IN  /\ response' =
                 IF err # "ok"
                 THEN Response("status", 0, StatusCodeOfGet(err), err, NoView)
                 ELSE Response("status", id, 200, NoVal,
                               formatWorkflowResponse(id, store[id]))
           /\ timers' = IF err # "ok" THEN timers
                        ELSE AddBag(timers, Timer(id, CREATE_DELAY))
    /\ UNCHANGED <<store, firings, calls, now, succ, nManual, listing>>

GetWorkflowStatus(id) ==
    /\ LET err == FindByIdError(id)
       IN  response' =
              IF err # "ok"
              THEN Response("status", 0, StatusCodeOfGet(err), err, NoView)
              ELSE Response("status", id, 200, NoVal,
                            formatWorkflowResponse(id, store[id]))
    /\ UNCHANGED <<store, timers, firings, calls, now, succ, nManual, listing>>

\* --------------------------------------------------- GET /workflow/stats
\* WorkflowService.getWorkflowStats: $match workflowStatus exists, $group by
\* workflowStatus with a count, into the zero-filled result
getWorkflowStats ==
    [s \in Statuses |->
        Cardinality({id \in Ids : /\ store[id].workflowStatus # NoVal
                                  /\ store[id].workflowStatus = s})]

\* Object.values(result).reduce((sum, count) => sum + count, 0)
TotalOf(result) ==
    result["transcription"] + result["review"] + result["approval"]
        + result["completed"] + result["rejected"]

GetWorkflowStats ==
    /\ response' = Response("stats", 0, 200, NoVal,
                            [statistics |-> getWorkflowStats,
                             total |-> TotalOf(getWorkflowStats)])
    /\ UNCHANGED <<store, timers, firings, calls, now, succ, nManual, listing>>

\* ------------------------------------------------------- GET /workflows
\* The result of parseInt: NaN or an integer
NaN == [nan |-> TRUE, n |-> 0]
Num(n) == [nan |-> FALSE, n |-> n]

Digits == <<"0", "1", "2", "3", "4", "5", "6", "7", "8", "9">>
IsDigit(c) == \E i \in 1..Len(Digits) : Digits[i] = c
DigitValue(c) == (CHOOSE i \in 1..Len(Digits) : Digits[i] = c) - 1

RECURSIVE SkipWhitespace(_)
SkipWhitespace(chars) ==
    IF chars # <<>> /\ Head(chars) \in Whitespace
    THEN SkipWhitespace(Tail(chars))
    ELSE chars

\* the value of the longest prefix of digits, after the digits read so far
RECURSIVE DigitsPrefix(_, _)
DigitsPrefix(chars, acc) ==
    IF chars # <<>> /\ IsDigit(Head(chars))
    THEN DigitsPrefix(Tail(chars), 10 * acc + DigitValue(Head(chars)))
    ELSE acc

\* parseInt(v, 10) of a query-string value: leading white space, an optional
\* sign, then the longest prefix of digits; NaN when there is no digit
parseInt(v) ==
    LET s == SkipWhitespace(v.chars)
        signed == s # <<>> /\ Head(s) \in {"-", "+"}
        body == IF signed THEN Tail(s) ELSE s
    IN  IF body = <<>> \/ ~IsDigit(Head(body))
        THEN NaN
        ELSE IF signed /\ Head(s) = "-"
             THEN Num(0 - DigitsPrefix(body, 0))
             ELSE Num(DigitsPrefix(body, 0))

\* const { status, page = '1', limit = '10' } = req.query
DefaultTo(v, chars) == IF v.type = "undefined" THEN JsString(chars) ELSE v

(* variant: the limit has no upper bound *)
ListValidationAnyLimit(status, page, limit) ==
    LET pageNum == parseInt(DefaultTo(page, <<"1">>))
        limitNum == parseInt(DefaultTo(limit, <<"1", "0">>))
    IN  IF pageNum.nan \/ pageNum.n < 1
        THEN "page must be a positive integer"
        ELSE IF limitNum.nan \/ limitNum.n < 1
        THEN "limit must be a positive integer between 1 and 100"
        ELSE IF status # NoVal /\ status # ""
                  /\ ~includes(<<"transcription", "review", "approval",
                                 "completed", "rejected">>, status)
        THEN "Invalid status filter"
        ELSE "ok"

\* the validation of WorkflowController.listWorkflows: "ok" or the error
ListValidation(status, page, limit) ==
    LET pageNum == parseInt(DefaultTo(page, <<"1">>))
        limitNum == parseInt(DefaultTo(limit, <<"1", "0">>))
    IN  IF pageNum.nan \/ pageNum.n < 1
        THEN "page must be a positive integer"
        ELSE IF limitNum.nan \/ limitNum.n < 1 \/ limitNum.n > 100
        THEN "limit must be a positive integer between 1 and 100"
        ELSE IF status # NoVal /\ status # ""
                  /\ ~includes(<<"transcription", "review", "approval",
                                 "completed", "rejected">>, status)
        THEN "Invalid status filter"
        ELSE "ok"

(* variant: the status filter is dropped from the query *)
ListQueryUnfiltered(status) ==
    {id \in Ids : store[id].workflowStatus # NoVal}

\* WorkflowService.listWorkflows, the query: workflowStatus exists, replaced
\* by the status filter when one is given
ListQuery(status) ==
    {id \in Ids :
        IF status # NoVal /\ status # ""
        THEN store[id].workflowStatus = status
        ELSE store[id].workflowStatus # NoVal}

\* sort({updatedAt: -1, createdAt: -1}): a missing updatedAt compares below
\* every date, so it comes last in the descending order
SortsBefore(a, b) ==
    \/ a.updatedAt > b.updatedAt
    \/ a.updatedAt = b.updatedAt /\ a.createdAt > b.createdAt

\* The orders the store may return the matching documents in: documents
\* equal in both sort keys come in any order
SortedOrders(ids) ==
    {q \in [1..Cardinality(ids) -> ids] :
        /\ \A i, j \in 1..Cardinality(ids) : i # j => q[i] # q[j]
        /\ \A i, j \in 1..Cardinality(ids) :
              i < j => ~SortsBefore(store[q[j]], store[q[i]])}

\* skip((page - 1) * limit).limit(limit)
PageOf(q, page, limit) ==
    LET skip == (page - 1) * limit
        last == IF skip + limit < Len(q) THEN skip + limit ELSE Len(q)
    IN  SubSeq(q, skip + 1, last)

\* The data of the answer to a list request, kept with the query string it
\* answers
ListAnswer(status, page, limit, workflows, total, pageNum, limitNum) ==
    [query |-> [status |-> status, page |-> page, limit |-> limit],
     workflows |-> workflows, total |-> total,
     page |-> pageNum, limit |-> limitNum]

\* a 400 answer carries no data
NoList(status, page, limit) ==
    ListAnswer(status, page, limit, <<>>, 0, 0, 0)

\* GET /workflows?status=&page=&limit= : the documents are given by their
\* _id, in the order returned
ListWorkflows(status, page, limit) ==
    /\ LET err == ListValidation(status, page, limit)
           pageNum == parseInt(DefaultTo(page, <<"1">>)).n
           limitNum == parseInt(DefaultTo(limit, <<"1", "0">>)).n
       IN  IF err # "ok"
           THEN response' = Response("list", 0, 400, err,
                                     NoList(status, page, limit))
           ELSE \E q \in SortedOrders(ListQuery(status)) :
                   response' = Response("list", 0, 200, NoVal,
                       ListAnswer(status, page, limit,
                                  PageOf(q, pageNum, limitNum),
                                  Cardinality(ListQuery(status)),
                                  pageNum, limitNum))
    /\ UNCHANGED <<store, timers, firings, calls, now, succ, nManual, listing>>

\* WorkflowService.listWorkflows, Promise.all([find, countDocuments]): the
\* two reads are separate operations of the store, answered in either order
\* and with other writes served between them. The first read is answered:
ListBegin(status, page, limit, first) ==
    /\ listing = {}
    /\ ListValidation(status, page, limit) = "ok"
    /\ LET pageNum == parseInt(DefaultTo(page, <<"1">>)).n
           limitNum == parseInt(DefaultTo(limit, <<"1", "0">>)).n
       IN  IF first = "find"
           THEN \E q \in SortedOrders(ListQuery(status)) :
                   listing' = {[first |-> first, status |-> status,
                                page |-> page, limit |-> limit,
                                workflows |-> PageOf(q, pageNum, limitNum),
                                total |-> 0]}
           ELSE listing' = {[first |-> first, status |-> status,
                             page |-> page, limit |-> limit,
                             workflows |-> <<>>,
                             total |-> Cardinality(ListQuery(status))]}
    /\ response' = NoResponse
    /\ UNCHANGED <<store, timers, firings, calls, now, succ, nManual>>

\* the other read is answered and the request with it
ListEnd ==
    /\ \E l \in listing :
          LET pageNum == parseInt(DefaultTo(l.page, <<"1">>)).n
              limitNum == parseInt(DefaultTo(l.limit, <<"1", "0">>)).n
          IN  IF l.first = "find"
              THEN response' = Response("list", 0, 200, NoVal,
                       ListAnswer(l.status, l.page, l.limit, l.workflows,
                                  Cardinality(ListQuery(l.status)),
                                  pageNum, limitNum))
              ELSE \E q \in SortedOrders(ListQuery(l.status)) :
                      response' = Response("list", 0, 200, NoVal,
                          ListAnswer(l.status, l.page, l.limit,
                                     PageOf(q, pageNum, limitNum),
                                     l.total, pageNum, limitNum))
    /\ listing' = {}
    /\ UNCHANGED <<store, timers, firings, calls, now, succ, nManual>>

\* the order in which the store answers the two reads
ListReadOrders == {"find", "count"}

\* The query strings of the list requests
ListStatusInputs ==
    {NoVal, "", "invalid", "transcription", "review", "rejected"}
ListPageInputs ==
    {JsUndefined, JsString(<<"0">>), JsString(<<"1">>), JsString(<<"2">>),
     JsString(<<"-", "1">>), JsString(<<"x">>), JsString(<<>>)}
ListLimitInputs ==
    {JsUndefined, JsString(<<"0">>), JsString(<<"1">>), JsString(<<"2">>),
     JsString(<<"1", "0", "0">>), JsString(<<"1", "0", "1">>),
     JsString(<<"x">>)}

\* ---------------------------------- WorkflowService.autoProgressWorkflow
\* (variant: the switch skips the review phase)
nextStatusSkipReview(status) ==
    CASE status = "transcription" -> "approval"
      [] status = "review"        -> "approval"
      [] status = "approval"      -> "completed"
      [] OTHER                    -> NoVal

\* (variant: the switch restarts a rejected workflow)
nextStatusRestart(status) ==
    CASE status = "transcription" -> "review"
      [] status = "review"        -> "approval"
      [] status = "approval"      -> "completed"
      [] status = "rejected"      -> "transcription"
      [] OTHER                    -> NoVal

nextStatusFor(status) ==
    CASE status = "transcription" -> "review"
      [] status = "review"        -> "approval"
      [] status = "approval"      -> "completed"
      [] OTHER                    -> NoVal

autoComment(status) ==
    CASE status = "transcription" -> "Auto-progressed to review phase"
      [] status = "review"        -> "Auto-progressed to approval phase"
      [] status = "approval"      -> "Auto-completed workflow"
      [] OTHER                    -> ""

\* (variant: the callback stays set after it ran, as with setInterval)
TimerFireRepeating(t) ==
    /\ t \in BagToSet(timers)
    /\ now >= t.due
    /\ InFlight < MaxInFlight
    /\ timers' = timers
    /\ IF t.id \notin Ids \/ store[t.id].workflowStatus = NoVal
          \/ nextStatusFor(store[t.id].workflowStatus) = NoVal
       THEN UNCHANGED firings
       ELSE firings' = AddBag(firings, Firing(t.id, store[t.id].workflowStatus))
    /\ response' = NoResponse
    /\ UNCHANGED <<store, calls, now, succ, nManual, listing>>

\* a setTimeout callback runs: findById and the switch
TimerFire(t) ==
    /\ t \in BagToSet(timers)
    /\ now >= t.due
    /\ InFlight < MaxInFlight
    /\ timers' = RemoveBag(timers, t)
    /\ IF t.id \notin Ids \/ store[t.id].workflowStatus = NoVal
          \/ nextStatusFor(store[t.id].workflowStatus) = NoVal
       THEN UNCHANGED firings
       ELSE firings' = AddBag(firings, Firing(t.id, store[t.id].workflowStatus))
    /\ response' = NoResponse
    /\ UNCHANGED <<store, calls, now, succ, nManual, listing>>

\* the transitionWorkflow call made by autoProgressWorkflow reads the
\* document again and validates against what it reads now
AutoTransition(f) ==
    /\ f \in BagToSet(firings)
    /\ firings' = RemoveBag(firings, f)
    /\ LET newStatus == nextStatusFor(f.readStatus)
           err == TransitionCheck(f.id, newStatus)
       IN  IF err # "ok"
           THEN UNCHANGED calls
           ELSE calls' = AddBag(calls,
                      Call(f.id, newStatus, "timer",
                           store[f.id].workflowStatus,
                           TransitionUpdate(store[f.id], newStatus,
                                            autoComment(f.readStatus),
                                            "system")))
    /\ response' = NoResponse
    /\ UNCHANGED <<store, timers, now, succ, nManual, listing>>

\* Transcription.findById rejects inside autoProgressWorkflow (store
\* unavailable): the catch block ends the run
TimerFireFail(t) ==
    /\ t \in BagToSet(timers)
    /\ now >= t.due
    /\ timers' = RemoveBag(timers, t)
    /\ response' = NoResponse
    /\ UNCHANGED <<store, firings, calls, now, succ, nManual, listing>>

\* Transcription.findById rejects inside the transitionWorkflow call of a
\* timer run: the error is caught by autoProgressWorkflow
AutoTransitionFail(f) ==
    /\ f \in BagToSet(firings)
    /\ firings' = RemoveBag(firings, f)
    /\ response' = NoResponse
    /\ UNCHANGED <<store, timers, calls, now, succ, nManual, listing>>

\* ----------------------------------------------------------------- router
Route(method, pattern, handler) ==
    [method |-> method, pattern |-> pattern, handler |-> handler]

\* workflow.routes.ts, the module with /workflow/stats before /workflow/:id
routerStatsFirst ==
    <<Route("POST", <<"workflow">>, "createWorkflow"),
      Route("GET", <<"workflow", "stats">>, "getWorkflowStats"),
      Route("PUT", <<"workflow", ":id", "transition">>, "transitionWorkflow"),
      Route("GET", <<"workflow", ":id">>, "getWorkflowStatus"),
      Route("GET", <<"workflows">>, "listWorkflows")>>

\* workflow.routes.ts, the module with /workflow/stats after /workflow/:id
routerStatsLast ==
    <<Route("POST", <<"workflow">>, "createWorkflow"),
      Route("PUT", <<"workflow", ":id", "transition">>, "transitionWorkflow"),
      Route("GET", <<"workflow", ":id">>, "getWorkflowStatus"),
      Route("GET", <<"workflows">>, "listWorkflows"),
      Route("GET", <<"workflow", "stats">>, "getWorkflowStats")>>

\* The source tree holds both modules under the one path the application
\* imports: the router mounted is either
Routers == {routerStatsFirst, routerStatsLast}

\* a path matches a pattern segment by segment, a parameter matching any
\* segment
Matches(route, method, path) ==
    /\ route.method = method
    /\ Len(route.pattern) = Len(path)
    /\ \A i \in 1..Len(path) :
          route.pattern[i] = ":id" \/ route.pattern[i] = path[i]

\* the handler of the first route that matches, in the order of registration
Dispatch(router, method, path) ==
    IF \E i \in 1..Len(router) : Matches(router[i], method, path)
    THEN router[CHOOSE i \in 1..Len(router) :
                    /\ Matches(router[i], method, path)
                    /\ \A j \in 1..(i - 1) : ~Matches(router[j], method, path)
               ].handler
    ELSE "notFound"

\* req.params.id as the _id it names: a string that is no ObjectId names
\* none
IdOfParam(param) ==
    CASE param = "1" -> 1
      [] param = "2" -> 2
      [] param = "3" -> 3
      [] OTHER       -> BadId

\* a GET request served by the router
Get(router, path) ==
    LET handler == Dispatch(router, "GET", path)
    IN  CASE handler = "getWorkflowStats"  -> GetWorkflowStats
          [] handler = "getWorkflowStatus" -> GetWorkflowStatus(IdOfParam(path[2]))
          [] handler = "listWorkflows"     ->
                 ListWorkflows(NoVal, JsUndefined, JsUndefined)
          [] OTHER ->
                 /\ response' = Response("notFound", 0, 404, "Not Found", NoView)
                 /\ UNCHANGED <<store, timers, firings, calls, now, succ,
                                nManual, listing>>

\* The paths of the GET requests
GetPaths ==
    {<<"workflow", "stats">>, <<"workflow", "1">>, <<"workflow", "2">>,
     <<"workflows">>, <<"stats">>}

\* --------------------------------------------------------- process restart
\* (variant: the pending callbacks are restored when the process starts)
RestartRestoring ==
    /\ InFlight = 0
    /\ Len(store) > 0
    /\ timers # EmptyBag
    /\ response' = NoResponse
    /\ UNCHANGED <<store, timers, firings, calls, now, succ, nManual, listing>>

\* App.shutdown awaits database.disconnect() and exits; App.start connects
\* and listens.  The callbacks of setTimeout are gone with the process, and
\* nothing in start() sets them again.
Restart ==
    /\ InFlight = 0
    /\ Len(store) > 0
    /\ timers # EmptyBag
    /\ timers' = EmptyBag
    /\ response' = NoResponse
    /\ UNCHANGED <<store, firings, calls, now, succ, nManual, listing>>

\* ------------------------------------------------------------------ time
\* (the clock is read from the first insert on: every timestamp and every
\* delay is relative)
\* a callback runs when its delay has elapsed
Tick ==
    /\ now < MaxTime
    /\ Len(store) > 0
    /\ \A t \in BagToSet(timers) : t.due > now
    /\ now' = now + 1
    /\ response' = NoResponse
    /\ UNCHANGED <<store, timers, firings, calls, succ, nManual, listing>>

Next ==
    \/ \E u \in AudioUrls, l \in LanguageInputs : CreateWorkflow(u, l)
    \/ \E u \in AudioUrls, l \in LanguageInputs :
         \E cause \in {"Audio download failed - network timeout", "save failed"} :
            CreateWorkflowFail(u, l, cause)
    \/ \E u \in AudioUrls, l \in LanguageInputs : CreateTranscription(u, l)
    \/ \E id \in IdInputs, s \in NewStatusInputs, cm \in CommentInputs,
          rb \in ReviewerInputs : PutTransition(id, s, cm, rb)
    \/ \E c \in BagToSet(calls) : Save(c)
    \/ \E c \in BagToSet(calls) : SaveFail(c)
    \/ \E t \in BagToSet(timers) : TimerFire(t)
    \/ \E f \in BagToSet(firings) : AutoTransition(f)
    \/ Tick

Spec == Init /\ [][Next]_vars

\* A workflow created, moved to review and moved to approval by two PUT
\* requests, all within the first second: its three timers are pending.
InitApproved ==
    /\ now = 0
    /\ store = <<TransitionUpdate(
                    TransitionUpdate(
                        WorkflowDoc("https://example.com/sample.mp3", NoVal),
                        "review", NoVal, "test-user"),
                    "approval", NoVal, "test-user")>>
    /\ timers = AddBag(AddBag(SetToBag({Timer(1, CREATE_DELAY)}),
                              Timer(1, REVIEW_DELAY)),
                       Timer(1, APPROVAL_DELAY))
    /\ firings = EmptyBag
    /\ calls = EmptyBag
    /\ response = NoResponse
    /\ succ = [i \in 1..MaxRecords |-> IF i = 1 THEN 2 ELSE 0]
    /\ nManual = 0
    /\ listing = {}

\* the life of the stored records: no further insert
NextApproved ==
    \/ \E id \in IdInputs, s \in NewStatusInputs, cm \in CommentInputs,
          rb \in ReviewerInputs : PutTransition(id, s, cm, rb)
    \/ \E c \in BagToSet(calls) : Save(c)
    \/ \E c \in BagToSet(calls) : SaveFail(c)
    \/ \E t \in BagToSet(timers) : TimerFire(t)
    \/ \E f \in BagToSet(firings) : AutoTransition(f)
    \/ Tick

SpecApproved == InitApproved /\ [][NextApproved]_vars

\* A workflow created and moved to review by one PUT request, all within the
\* first second: the creation timer was pending when the PUT succeeded, the
\* timer set by the PUT itself follows it.
InitReviewed ==
    /\ now = 0
    /\ store = <<TransitionUpdate(
                    WorkflowDoc("https://example.com/sample.mp3", NoVal),
                    "review", NoVal, "test-user")>>
    /\ timers = AddBag(SetToBag({Timer(1, CREATE_DELAY)}),
                       Timer(1, REVIEW_DELAY))
    /\ firings = EmptyBag
    /\ calls = EmptyBag
    /\ response = NoResponse
    /\ succ = [i \in 1..MaxRecords |-> IF i = 1 THEN 1 ELSE 0]
    /\ nManual = 0
    /\ listing = {}

SpecReviewed == InitReviewed /\ [][NextApproved]_vars

\* Workflows left to their timers: no PUT request, every save succeeds.
\* The clock matters only while a callback is pending, and then it runs
\* until the callback is due; a store round trip (milliseconds) ends within
\* the second in which it began.
TickAuto ==
    /\ timers # EmptyBag
    /\ InFlight = 0
    /\ \A t \in BagToSet(timers) : t.due > now
    /\ now' = now + 1
    /\ response' = NoResponse
    /\ UNCHANGED <<store, timers, firings, calls, succ, nManual, listing>>

AutoUrlInputs == {"https://example.com/sample.mp3", "https://example.com/a.mp3"}
AutoLanguageInputs == {NoVal, "fr-FR", "es-ES"}

NextAuto ==
    \/ \E u \in AutoUrlInputs, l \in AutoLanguageInputs : CreateWorkflow(u, l)
    \/ \E c \in BagToSet(calls) : Save(c)
    \/ \E t \in BagToSet(timers) : TimerFire(t)
    \/ \E f \in BagToSet(firings) : AutoTransition(f)
    \/ TickAuto

\* the event loop runs every due callback and every continuation, the store
\* answers every write, time passes
SpecAuto ==
    /\ Init /\ [][NextAuto]_vars
    /\ WF_vars(\E c \in BagToSet(calls) : Save(c))
    /\ WF_vars(\E t \in BagToSet(timers) : TimerFire(t))
    /\ WF_vars(\E f \in BagToSet(firings) : AutoTransition(f))
    /\ WF_vars(TickAuto)

\* Creates and manual transitions, finitely many, with the event loop, the
\* store and the clock of SpecAuto
NextQuiesce ==
    \/ \E u \in AudioUrls, l \in LanguageInputs : CreateWorkflow(u, l)
    \/ \E id \in IdInputs, s \in NewStatusInputs, cm \in CommentInputs,
          rb \in ReviewerInputs : PutTransition(id, s, cm, rb)
    \/ \E c \in BagToSet(calls) : Save(c)
    \/ \E t \in BagToSet(timers) : TimerFire(t)
    \/ \E f \in BagToSet(firings) : AutoTransition(f)
    \/ TickAuto

SpecQuiesce ==
    /\ Init /\ [][NextQuiesce]_vars
    /\ WF_vars(\E c \in BagToSet(calls) : Save(c))
    /\ WF_vars(\E t \in BagToSet(timers) : TimerFire(t))
    /\ WF_vars(\E f \in BagToSet(firings) : AutoTransition(f))
    /\ WF_vars(TickAuto)

\* POST /workflow requests with any body, and the timers they set
NextPost ==
    \/ \E u \in PostUrlInputs, l \in PostLanguageInputs : PostWorkflow(u, l)
    \/ \E c \in BagToSet(calls) : Save(c)
    \/ \E t \in BagToSet(timers) : TimerFire(t)
    \/ \E f \in BagToSet(firings) : AutoTransition(f)
    \/ TickAuto

SpecPost == Init /\ [][NextPost]_vars

\* the same document, stored d seconds earlier
Earlier(doc, d) ==
    LET h == doc.workflowHistory
    IN  [doc EXCEPT
            !.createdAt = @ - d,
            !.updatedAt = IF @ = NoDate THEN NoDate ELSE @ - d,
            !.workflowHistory =
                [i \in 1..Len(h) |-> [h[i] EXCEPT !.timestamp = @ - d]]]

\* Two workflows: the first was created and rejected by a PUT request a
\* second ago, the second has just been created.  Each creation timer is
\* pending.
InitListed ==
    /\ now = 1
    /\ store = <<Earlier(TransitionUpdate(
                            WorkflowDoc("https://example.com/sample.mp3", NoVal),
                            "rejected", NoVal, "test-user"), 1),
                 WorkflowDoc("https://example.com/sample.mp3", NoVal)>>
    /\ timers = AddBag(SetToBag({[id |-> 1, due |-> now - 1 + CREATE_DELAY]}),
                       Timer(2, CREATE_DELAY))
    /\ firings = EmptyBag
    /\ calls = EmptyBag
    /\ response = NoResponse
    /\ succ = [i \in 1..2 |-> IF i = 1 THEN 1 ELSE 0]
    /\ nManual = 0
    /\ listing = {}

\* the two workflows left to their timers, and the list requests
NextListed ==
    \/ \E s \in ListStatusInputs, p \in ListPageInputs, l \in ListLimitInputs :
          ListWorkflows(s, p, l)
    \/ \E c \in BagToSet(calls) : Save(c)
    \/ \E t \in BagToSet(timers) : TimerFire(t)
    \/ \E f \in BagToSet(firings) : AutoTransition(f)
    \/ Tick

SpecListed == InitListed /\ [][NextListed]_vars

\* the life of the two workflows, store failures included
NextPair ==
    \/ \E id \in IdInputs, s \in NewStatusInputs, cm \in CommentInputs,
          rb \in ReviewerInputs : PutTransition(id, s, cm, rb)
    \/ \E c \in BagToSet(calls) : Save(c)
    \/ \E c \in BagToSet(calls) : SaveFail(c)
    \/ \E t \in BagToSet(timers) : TimerFire(t)
    \/ \E t \in BagToSet(timers) : TimerFireFail(t)
    \/ \E f \in BagToSet(firings) : AutoTransition(f)
    \/ \E f \in BagToSet(firings) : AutoTransitionFail(f)
    \/ Tick

SpecPair == InitListed /\ [][NextPair]_vars

\* the clock while azure requests are served
TickAzure ==
    /\ now < MaxTime
    /\ now' = now + 1
    /\ response' = NoResponse
    /\ UNCHANGED <<store, timers, firings, calls, succ, nManual, listing>>

\* The azure requests
NextAzure ==
    \/ \E u \in AzureUrlInputs, l \in AzureLanguageInputs, env \in AzureEnvs :
          PostAzureTranscription(u, l, env)
    \/ GetWorkflowStats
    \/ \E s \in ListStatusInputs : ListWorkflows(s, JsUndefined, JsUndefined)
    \/ TickAzure

SpecAzure == Init /\ [][NextAzure]_vars

\* the reviewed workflow of InitReviewed, with the read requests
NextRead ==
    \/ \E id \in IdInputs, s \in NewStatusInputs, cm \in CommentInputs,
          rb \in ReviewerInputs : PutTransition(id, s, cm, rb)
    \/ \E id \in IdInputs : GetWorkflowStatus(id)
    \/ GetWorkflowStats
    \/ \E s \in {NoVal, "review"} : ListWorkflows(s, JsUndefined, JsUndefined)
    \/ \E c \in BagToSet(calls) : Save(c)
    \/ \E t \in BagToSet(timers) : TimerFire(t)
    \/ \E f \in BagToSet(firings) : AutoTransition(f)
    \/ Tick

SpecRead == InitReviewed /\ [][NextRead]_vars

\* the reviewed workflow of InitReviewed, in a process that may restart
NextRestart ==
    \/ \E id \in IdInputs, s \in NewStatusInputs, cm \in CommentInputs,
          rb \in ReviewerInputs : PutTransition(id, s, cm, rb)
    \/ \E c \in BagToSet(calls) : Save(c)
    \/ \E t \in BagToSet(timers) : TimerFire(t)
    \/ \E f \in BagToSet(firings) : AutoTransition(f)
    \/ Restart
    \/ Tick

SpecRestart == InitReviewed /\ [][NextRestart]_vars

\* GET requests through the router, on workflows left to their timers
NextRoute ==
    \/ \E u \in AudioUrls, l \in LanguageInputs : CreateWorkflow(u, l)
    \/ \E u \in AudioUrls, l \in LanguageInputs : CreateTranscription(u, l)
    \/ \E r \in Routers, path \in GetPaths : Get(r, path)
    \/ \E c \in BagToSet(calls) : Save(c)
    \/ \E t \in BagToSet(timers) : TimerFire(t)
    \/ \E f \in BagToSet(firings) : AutoTransition(f)
    \/ Tick

SpecRoute == Init /\ [][NextRoute]_vars

\* List requests served while workflows are created and moved
RaceStatusInputs == {NoVal, "review"}
RacePageInputs == {JsUndefined, JsString(<<"2">>)}
RaceLimitInputs == {JsUndefined, JsString(<<"1">>)}

NextListRace ==
    \/ \E u \in AudioUrls, l \in LanguageInputs : CreateWorkflow(u, l)
    \/ \E id \in IdInputs, s \in NewStatusInputs, cm \in CommentInputs,
          rb \in ReviewerInputs : PutTransition(id, s, cm, rb)
    \/ \E s \in RaceStatusInputs, p \in RacePageInputs,
          l \in RaceLimitInputs, first \in ListReadOrders :
          ListBegin(s, p, l, first)
    \/ ListEnd
    \/ \E c \in BagToSet(calls) : Save(c)
    \/ \E t \in BagToSet(timers) : TimerFire(t)
    \/ \E f \in BagToSet(firings) : AutoTransition(f)
    \/ Tick

SpecListRace == Init /\ [][NextListRace]_vars

\* Requests with any id, reads included
NextQuery ==
    \/ \E u \in AudioUrls, l \in LanguageInputs : CreateWorkflow(u, l)
    \/ \E u \in AudioUrls, l \in LanguageInputs : CreateTranscription(u, l)
    \/ \E id \in LookupIdInputs, s \in NewStatusInputs, cm \in CommentInputs,
          rb \in ReviewerInputs : PutTransition(id, s, cm, rb)
    \/ \E id \in LookupIdInputs : GetWorkflowStatus(id)
    \/ GetWorkflowStats
    \/ \E s \in ListStatusInputs : ListWorkflows(s, JsUndefined, JsUndefined)
    \/ \E c \in BagToSet(calls) : Save(c)
    \/ \E t \in BagToSet(timers) : TimerFire(t)
    \/ \E f \in BagToSet(firings) : AutoTransition(f)
    \/ Tick

SpecQuery == Init /\ [][NextQuery]_vars

TypeOK ==
    /\ Len(store) <= MaxRecords
    /\ now \in 0..MaxTime
    /\ nManual \in 0..MaxManual
    /\ \A i \in Ids : store[i].workflowStatus \in Statuses

\* ================================================================ claims
allowed(status) == {validTransitions[status][i] :
                        i \in 1..Len(validTransitions[status])}

IsPrefix(a, b) == Len(a) <= Len(b) /\ \A i \in 1..Len(a) : a[i] = b[i]

StoreKept == \A i \in Ids : store'[i] = store[i]

\* C1: a transition call whose target is not in the allowed-next set of the
\* status it finds fails with "Invalid transition" (400 for a PUT request,
\* swallowed for a timer) and changes no record, starts no save and
\* schedules no timer.
C1_InvalidTransitionFails ==
    /\ [](\A id \in Ids :
            \A s \in Statuses \ allowed(store[id].workflowStatus) :
                ~includes(controllerValidStatuses, s)
                    => TransitionCheck(id, s) = "Invalid transition")
    /\ [][/\ nManual' # nManual =>
                \A id \in Ids, cm \in CommentInputs, rb \in ReviewerInputs :
                  \A s \in Statuses :
                    ( /\ includes(controllerValidStatuses, s)
                      /\ s \notin allowed(store[id].workflowStatus)
                      /\ PutTransition(id, s, cm, rb) )
                    => /\ response' = Response("transition", 0, 400,
                                               "Invalid transition", NoView)
                       /\ UNCHANGED <<store, timers, firings, calls, succ, listing>>
          /\ firings' # firings =>
                \A f \in BagToSet(firings) :
                    ( /\ nextStatusFor(f.readStatus)
                            \notin allowed(store[f.id].workflowStatus)
                      /\ AutoTransition(f) )
                    => /\ response' = NoResponse
                       /\ UNCHANGED <<store, timers, calls, succ, listing>>
       ]_vars

\* PUT {newStatus: "completed"} answered 400 on a record in review
C1_Witness ==
    /\ response = Response("transition", 0, 400, "Invalid transition", NoView)
    /\ \E id \in Ids : /\ store[id].workflowStatus = "review"
                       /\ Len(store[id].workflowHistory) = 2

\* C2: consecutive entries of every record's history are edges of the
\* transition table.
C2_HistoryFollowsTable ==
    \A id \in Ids :
        \A i \in 1..(Len(store[id].workflowHistory) - 1) :
            store[id].workflowHistory[i + 1].status
                \in allowed(store[id].workflowHistory[i].status)

\* C3: once a record's stored status is completed, the record never
\* changes again (checked from the approved workflow of InitApproved).
C3_CompletedAbsorbing ==
    [][\A id \in Ids :
          store[id].workflowStatus = "completed" => store'[id] = store[id]]_vars

\* C4: a transition call that succeeds overwrites the status it validated
\* against: no other call on the record has succeeded since it read.
C4_NoStaleOverwrite ==
    [][\A c \in BagToSet(calls) :
          Save(c) =>
             /\ store[c.id].workflowStatus = c.readStatus
             /\ Len(store[c.id].workflowHistory) + 1
                    = Len(c.doc.workflowHistory)]_vars

\* C5: every stored record has a history of at least one entry, and the
\* last entry's status is the record's status.
C5_HistoryMirrorsStatus ==
    \A id \in Ids :
        /\ Len(store[id].workflowHistory) >= 1
        /\ Last(store[id].workflowHistory).status = store[id].workflowStatus

\* C6: the history of every record has one entry more than the number of
\* transition calls on it that returned successfully.
C6_HistoryCountsSuccesses ==
    \A id \in Ids : Len(store[id].workflowHistory) = 1 + succ[id]

\* C7: histories are append-only: in every step the old history of a
\* record is a prefix of its new history.
C7_HistoryAppendOnly ==
    [][\A id \in Ids :
          IsPrefix(store[id].workflowHistory,
                   store'[id].workflowHistory)]_vars

\* a save landed on a record that another call had changed since the read
C7_Witness ==
    \E id \in Ids :
        /\ Len(store[id].workflowHistory) = 3
        /\ store[id].workflowHistory[3].timestamp
              < store[id].workflowHistory[2].timestamp

\* C8: a successful create adds exactly one record, in status
\* transcription with the single history entry transcription, answers with
\* currentStatus transcription and canTransition = [review, rejected], and
\* schedules exactly one timer, for that record, 2 seconds ahead.
C8_CreateEffect ==
    [][\A u \in AudioUrls, l \in LanguageInputs :
          CreateWorkflow(u, l) =>
            LET id == Len(store) + 1
                t  == [id |-> id, due |-> now + 2]
            IN  /\ Len(store') = Len(store) + 1
                /\ StoreKept
                /\ store'[id].workflowStatus = "transcription"
                /\ Len(store'[id].workflowHistory) = 1
                /\ store'[id].workflowHistory[1].status = "transcription"
                /\ response'.code = 201
                /\ response'.data.id = id
                /\ response'.data.currentStatus = "transcription"
                /\ response'.data.canTransition = <<"review", "rejected">>
                /\ response'.data.workflowHistory = store'[id].workflowHistory
                /\ BagCardinality(timers') = BagCardinality(timers) + 1
                /\ CopiesIn(t, timers') = CopiesIn(t, timers) + 1
                /\ UNCHANGED <<firings, calls, listing>>]_vars

C8_Witness ==
    /\ response.op = "create"
    /\ response.code = 201
    /\ Len(store) = 1
    /\ BagCardinality(timers) = 1

\* C9: with no manual transition request, the firing of the creation timer
\* takes the record from transcription to review: it starts a transition
\* to review, the transition validates, and when its write lands the
\* history has exactly 2 entries, the last one with reviewedBy "system".
C9_CreationTimerToReview ==
    [][nManual = 0 =>
        /\ \A t \in BagToSet(timers) :
              (TimerFire(t) /\ store[t.id].workflowStatus = "transcription")
              => firings' = AddBag(firings, [id |-> t.id,
                                             readStatus |-> "transcription"])
        /\ \A f \in BagToSet(firings) :
              (AutoTransition(f) /\ store[f.id].workflowStatus = "transcription")
              => /\ BagCardinality(calls') = BagCardinality(calls) + 1
                 /\ \E c \in BagToSet(calls') :
                       c.id = f.id /\ c.newStatus = "review"
        /\ \A c \in BagToSet(calls) :
              (Save(c) /\ store[c.id].workflowStatus = "transcription")
              => /\ store'[c.id].workflowStatus = "review"
                 /\ Len(store'[c.id].workflowHistory) = 2
                 /\ store'[c.id].workflowHistory[2].status = "review"
                 /\ store'[c.id].workflowHistory[2].reviewedBy = "system"
      ]_vars

C9_Witness ==
    /\ nManual = 0
    /\ \E id \in Ids :
          /\ store[id].workflowStatus = "review"
          /\ Len(store[id].workflowHistory) = 2
          /\ store[id].workflowHistory[2].reviewedBy = "system"
          /\ store[id].workflowHistory[2].timestamp >= 2

\* C10: a timer that fires on a record whose status is rejected or
\* completed performs no transition: the callback returns after its read,
\* and a run that had already chosen a target is refused by the
\* validation; status and history stay as they are (checked from the
\* approved workflow of InitApproved, where both statuses are met by timers).
C10_TimerNoOpWhenRejectedOrCompleted ==
    [][/\ \A t \in BagToSet(timers) :
             ( /\ store[t.id].workflowStatus \in {"rejected", "completed"}
               /\ TimerFire(t) )
             => UNCHANGED <<store, firings, calls, succ, listing>>
       /\ \A f \in BagToSet(firings) :
             ( /\ store[f.id].workflowStatus \in {"rejected", "completed"}
               /\ AutoTransition(f) )
             => UNCHANGED <<store, calls, timers, succ, listing>>
      ]_vars

\* the approved workflow was rejected within the first second, and the
\* timers due at 2 and 3 have fired since
C10_Witness ==
    /\ now >= 3
    /\ InFlight = 0
    /\ \A t \in BagToSet(timers) : t.due > now
    /\ \E id \in Ids :
          /\ store[id].workflowStatus = "rejected"
          /\ Len(store[id].workflowHistory) = 4
          /\ store[id].workflowHistory[4].status = "rejected"
          /\ store[id].updatedAt < 2

\* C11: a successful manual transition makes the timers that were pending
\* for the record no-ops.  From the workflow of InitReviewed, with no
\* further request, the only timer that can run before the one set by the
\* PUT comes due (REVIEW_DELAY) is the creation timer, pending when the PUT
\* succeeded: until then the record keeps its status and its history.
C11_PendingTimerNoOp ==
    (nManual = 0 /\ now < REVIEW_DELAY) =>
        /\ store[1].workflowStatus = "review"
        /\ Len(store[1].workflowHistory) = 2

\* the statuses of a history, in order
StatusesOf(history) == [i \in 1..Len(history) |-> history[i].status]

AutoPath == <<"transcription", "review", "approval", "completed">>

\* C12: with no manual transition and no failing save, every created
\* workflow eventually is completed with the history transcription, review,
\* approval, completed, the last three entries by "system"; on the way its
\* history is always a prefix of that path.
C12_AutoCompletes ==
    /\ [](\A id \in Ids :
            /\ IsPrefix(StatusesOf(store[id].workflowHistory), AutoPath)
            /\ Last(store[id].workflowHistory).status
                   = store[id].workflowStatus)
    /\ \A id \in 1..MaxRecords :
          (id \in Ids) ~>
             ( /\ id \in Ids
               /\ store[id].workflowStatus = "completed"
               /\ StatusesOf(store[id].workflowHistory) = AutoPath
               /\ \A i \in 2..4 :
                     store[id].workflowHistory[i].reviewedBy = "system" )

C12_Witness ==
    \E id \in Ids :
        /\ store[id].workflowStatus = "completed"
        /\ Len(store[id].workflowHistory) = 4
        /\ store[id].workflowHistory[4].reviewedBy = "system"
        /\ now = CREATE_DELAY + REVIEW_DELAY + APPROVAL_DELAY

\* the delay documented for leaving a status by auto-progression
DelayOf(status) ==
    CASE status = "transcription" -> CREATE_DELAY
      [] status = "review"        -> REVIEW_DELAY
      [] status = "approval"      -> APPROVAL_DELAY

\* C13: a record is not auto-progressed from review to approval less than 3
\* seconds after it entered review, nor from approval to completed less
\* than 5 seconds after it entered approval: a "system" entry approval
\* (completed) that follows an entry review (approval) is at least that
\* much later.
C13_NoEarlyAutoProgress ==
    \A id \in Ids :
        \A i \in 1..(Len(store[id].workflowHistory) - 1) :
            LET from == store[id].workflowHistory[i]
                to   == store[id].workflowHistory[i + 1]
            IN  ( /\ to.reviewedBy = "system"
                  /\ from.status \in {"review", "approval"}
                  /\ to.status = nextStatusFor(from.status) )
                => to.timestamp >= from.timestamp + DelayOf(from.status)

\* C14: a transition that succeeds to review sets exactly one callback, 3
\* seconds ahead, one that succeeds to approval exactly one, 5 seconds
\* ahead, one that succeeds to any other status none; a transition that
\* fails (refused request, refused timer run, failed save) sets none.
C14_TimersPerTransition ==
    [][/\ calls' # calls =>
            \A c \in BagToSet(calls) :
               /\ Save(c) =>
                     timers' = (CASE c.newStatus = "review" ->
                                      timers (+) SetToBag({[id |-> c.id,
                                                  due |-> now + REVIEW_DELAY]})
                                  [] c.newStatus = "approval" ->
                                      timers (+) SetToBag({[id |-> c.id,
                                                  due |-> now + APPROVAL_DELAY]})
                                  [] OTHER -> timers)
               /\ SaveFail(c) => UNCHANGED timers
       /\ nManual' # nManual => UNCHANGED timers
       /\ firings' # firings =>
            \A f \in BagToSet(firings) : AutoTransition(f) => UNCHANGED timers
      ]_vars

\* the callback set by a timer-made move to approval is pending
C14_Witness ==
    \E t \in BagToSet(timers) :
        /\ t.due = now + APPROVAL_DELAY
        /\ store[t.id].workflowStatus = "approval"
        /\ Last(store[t.id].workflowHistory).reviewedBy = "system"
        /\ BagCardinality(timers) = 2

\* C15: a transition request (with a status the controller accepts) or a
\* status request for an id that references no stored record is answered
\* 404 "Transcription not found", and changes no record, starts no save and
\* sets no timer.
C15_UnknownIdNotFound ==
    [][/\ nManual' # nManual =>
            \A id \in LookupIdInputs \ Ids, cm \in CommentInputs,
               rb \in ReviewerInputs :
               \A s \in Statuses :
                  (includes(controllerValidStatuses, s)
                      /\ PutTransition(id, s, cm, rb))
                  => /\ response'.code = 404
                     /\ response'.error = "Transcription not found"
                     /\ UNCHANGED <<store, timers, firings, calls, succ, listing>>
       /\ response'.op = "status" =>
            \A id \in LookupIdInputs \ Ids :
               GetWorkflowStatus(id)
                  => /\ response'.code = 404
                     /\ response'.error = "Transcription not found"
                     /\ UNCHANGED <<store, timers, firings, calls, succ, listing>>
      ]_vars

\* C16: a transition whose target is the record's current status fails with
\* "Invalid transition", for every status; a PUT request that repeats the
\* target of one that succeeded is answered 400 and adds no history entry
\* (checked from the workflow of InitReviewed, moved to review by a PUT).
C16_SameStatusFails ==
    /\ [](/\ \A s \in Statuses : ~includes(validTransitions[s], s)
          /\ \A id \in Ids :
                TransitionCheck(id, store[id].workflowStatus)
                    = "Invalid transition")
    /\ [][nManual' # nManual =>
            \A id \in Ids, cm \in CommentInputs, rb \in ReviewerInputs :
               ( /\ includes(controllerValidStatuses,
                             store[id].workflowStatus)
                 /\ PutTransition(id, store[id].workflowStatus, cm, rb) )
               => /\ response' = Response("transition", 0, 400,
                                          "Invalid transition", NoView)
                  /\ UNCHANGED <<store, timers, firings, calls, succ, listing>>
       ]_vars

\* a PUT on the record still in review after the first one has been
\* refused with 400, as the repeated {newStatus: "review"} is
C16_Witness ==
    /\ nManual = 1
    /\ response = Response("transition", 0, 400, "Invalid transition", NoView)
    /\ store[1].workflowStatus = "review"
    /\ Len(store[1].workflowHistory) = 2
    /\ store[1].workflowHistory[2].reviewedBy = "test-user"

\* C17: a transition is applied whole or not at all: in every step each
\* stored record either stays as it is, or takes the target status of a
\* call in flight together with that call's history entry (and updatedAt);
\* a PUT whose save fails is answered 500 and leaves every record as it was.
C17_TransitionAtomic ==
    [][/\ \A id \in Ids :
             \/ store'[id] = store[id]
             \/ \E c \in BagToSet(calls) :
                   /\ c.id = id
                   /\ store'[id].workflowStatus = c.newStatus
                   /\ store'[id].updatedAt = c.doc.updatedAt
                   /\ store'[id].workflowHistory
                         = Append(store[id].workflowHistory,
                                  Last(c.doc.workflowHistory))
                   /\ Last(c.doc.workflowHistory).status = c.newStatus
       /\ calls' # calls =>
             \A c \in BagToSet(calls) :
                (c.origin = "manual" /\ SaveFail(c))
                => /\ response'.code = 500
                   /\ UNCHANGED <<store, timers, succ, listing>>
      ]_vars

\* the save of a PUT {newStatus: "review"} failed: the record is as created
C17_Witness ==
    /\ response = Response("transition", 0, 500, "save failed", NoView)
    /\ nManual = 1
    /\ \E id \in Ids : /\ store[id].workflowStatus = "transcription"
                       /\ Len(store[id].workflowHistory) = 1
                       /\ store[id].updatedAt = NoDate

\* C18: when create fails (the mock download throws or the save rejects)
\* the request is answered with the error (500), no record is stored and
\* no timer is set.
C18_CreateFailureLeavesNothing ==
    [][\A u \in AudioUrls, l \in LanguageInputs :
         \A cause \in {"Audio download failed - network timeout",
                        "save failed"} :
            CreateWorkflowFail(u, l, cause)
            => /\ response'.op = "create"
               /\ response'.code = 500
               /\ response'.error = cause
               /\ store' = store
               /\ timers' = timers
               /\ UNCHANGED <<firings, calls, succ, listing>>
      ]_vars

C18_Witness ==
    /\ response = Response("create", 0, 500, "save failed", NoView)
    /\ store = <<>>
    /\ timers = EmptyBag

\* a body the claim calls malformed: audioUrl missing or no URL of the
\* pattern, or language present and not of the form xx-XX
MalformedBody(audioUrl, language) ==
    \/ audioUrl.type # "string"
    \/ ~urlRegexTest(audioUrl.chars)
    \/ /\ language.type # "undefined"
       /\ ~(language.type = "string" /\ langRegexTest(language.chars))

\* C19: a POST /workflow request with a malformed body is answered 400;
\* no record is stored and no timer is set.
C19_MalformedCreateRejected ==
    [][response'.op = "create" =>
         \A u \in PostUrlInputs, l \in PostLanguageInputs :
            (MalformedBody(u, l) /\ PostWorkflow(u, l))
            => /\ response'.code = 400
               /\ store' = store
               /\ timers' = timers
      ]_vars

\* a record made by createWorkflow (its first history entry says so)
IsWorkflow(doc) ==
    /\ Len(doc.workflowHistory) >= 1
    /\ doc.workflowHistory[1].comment
          = "Workflow initiated - transcription completed"

\* C20: the statistics give, for each of the five statuses, the number of
\* workflows now in that status, and the total is their sum and the number
\* of workflows created.
C20_StatsCountWorkflows ==
    [][GetWorkflowStats =>
         /\ \A s \in Statuses :
               response'.data.statistics[s]
                  = Cardinality({id \in Ids : /\ IsWorkflow(store[id])
                                              /\ store[id].workflowStatus = s})
         /\ response'.data.total = TotalOf(response'.data.statistics)
         /\ response'.data.total
               = Cardinality({id \in Ids : IsWorkflow(store[id])})
      ]_vars

\* C21: the statistics and the list cover only the records createWorkflow
\* started: a record stored by the standalone transcription path is counted
\* in no bucket and no total, and is not returned by the list
C21_OnlyWorkflowsListed ==
    [][/\ (response'.op = "stats" /\ response'.code = 200) =>
            \A s \in Statuses :
                response'.data.statistics[s] <=
                    Cardinality({id \in Ids : /\ IsWorkflow(store[id])
                                              /\ store[id].workflowStatus = s})
       /\ (response'.op = "list" /\ response'.code = 200) =>
            /\ \A i \in 1..Len(response'.data.workflows) :
                  IsWorkflow(store[response'.data.workflows[i]])
            /\ response'.data.total <=
                  Cardinality({id \in Ids : IsWorkflow(store[id])})]_vars

LastTouched(doc) ==
    IF doc.updatedAt = NoDate THEN doc.createdAt ELSE doc.updatedAt

\* C23: the list is ordered newest first by the time of the last update,
\* the creation time standing in for a record never updated: a record
\* touched later than another one is listed before it.
C23_ListNewestFirst ==
    [][(response'.op = "list" /\ response'.code = 200) =>
         \A i, j \in 1..Len(response'.data.workflows) :
            LastTouched(store[response'.data.workflows[i]])
               > LastTouched(store[response'.data.workflows[j]])
            => i < j
      ]_vars

\* the answers that carry a status view
ViewOps == {"create", "transition", "status"}

\* C24: the canTransition of every status view returned by create,
\* transition and getStatus is the table's allowed-next list of its
\* currentStatus, and a transition request to s on a record is accepted
\* exactly when s is in the canTransition of the record's view.
C24_CanTransitionIsAccepted ==
    [][/\ (response'.op \in ViewOps /\ response'.code \in {200, 201}) =>
            response'.data.canTransition
               = validTransitions[response'.data.currentStatus]
       /\ nManual' # nManual =>
            \A id \in Ids, cm \in CommentInputs, rb \in ReviewerInputs :
              \A s \in Statuses :
                PutTransition(id, s, cm, rb)
                => (calls' # calls
                      <=> includes(formatWorkflowResponse(id, store[id])
                                      .canTransition, s))
      ]_vars

\* C25: every edge of the transition table can be taken by a PUT request:
\* a request whose newStatus is an allowed next status of the record,
\* transcription included, is accepted and its save moves the record there
\* with answer 200.
C25_EveryEdgeByPut ==
    [][/\ nManual' # nManual =>
            \A id \in Ids, cm \in CommentInputs, rb \in ReviewerInputs :
              \A s \in Statuses :
                ( /\ s \in allowed(store[id].workflowStatus)
                  /\ PutTransition(id, s, cm, rb) )
                => /\ calls' # calls
                   /\ response' = NoResponse
       /\ calls' # calls =>
            \A c \in BagToSet(calls) :
                (c.origin = "manual" /\ Save(c))
                => /\ response'.code = 200
                   /\ store'[c.id].workflowStatus = c.newStatus
      ]_vars

\* C26: a failure inside a timer run (the store rejects the read or the
\* write, the transition is refused) ends the run with no answer and no
\* error outside it: the targeted record is unchanged, no save is started
\* and no timer is set; and whatever a timer run does, every record with
\* another id is unchanged.
C26_FiringFailureSwallowed ==
    [][/\ timers' # timers =>
            \A t \in BagToSet(timers) :
                (TimerFire(t) \/ TimerFireFail(t))
                => /\ store' = store
                   /\ response' = NoResponse
                   /\ TimerFireFail(t) => (firings' = firings /\ calls' = calls)
       /\ firings' # firings =>
            \A f \in BagToSet(firings) :
                /\ ( /\ nextStatusFor(f.readStatus)
                           \notin allowed(store[f.id].workflowStatus)
                     /\ AutoTransition(f) )
                   => /\ response' = NoResponse
                      /\ UNCHANGED <<store, timers, calls, succ, listing>>
                /\ AutoTransitionFail(f)
                   => /\ response' = NoResponse
                      /\ UNCHANGED <<store, timers, calls, succ, listing>>
       /\ calls' # calls =>
            \A c \in BagToSet(calls) :
                c.origin = "timer" =>
                  /\ SaveFail(c) => /\ response' = NoResponse
                                    /\ UNCHANGED <<store, timers, firings, succ, listing>>
                  /\ Save(c) => \A id \in Ids \ {c.id} : store'[id] = store[id]
      ]_vars

\* two records, and a timer run about to ask for a transition that the
\* record's present status does not allow
C26_Witness ==
    /\ Len(store) = 2
    /\ \E f \in BagToSet(firings) :
          nextStatusFor(f.readStatus) \notin allowed(store[f.id].workflowStatus)

\* the first invocation of the speech call that resolves, 0 when none of
\* the first n does
FirstSuccess(outcomes, n) ==
    IF \E k \in 1..n : outcomes[k]
    THEN CHOOSE k \in 1..n : outcomes[k] /\ \A j \in 1..(k - 1) : ~outcomes[j]
    ELSE 0

\* C27: withRetry invokes the speech call at most 3 times in a request; it
\* returns the result of the first invocation that resolves and invokes no
\* further; when all 3 reject it stops and throws the error of the third.
C27_RetryAtMostThree ==
    [][response'.op = "azure" =>
         \A env \in AzureEnvs :
            env.download =>
              \A u \in AzureUrlInputs \ {NoVal}, l \in AzureLanguageInputs :
                PostAzureTranscription(u, l, env)
                => LET run == response'.data.run
                       first == FirstSuccess(env.speech, 3)
                   IN  /\ run.invoked <= 3
                       /\ first # 0 => /\ run.ok
                                       /\ run.result = first
                                       /\ run.invoked = first
                                       /\ run.thrown = 0
                       /\ first = 0 => /\ ~run.ok
                                       /\ run.invoked = 3
                                       /\ run.thrown = 3
                                       /\ run.result = 0
      ]_vars

\* a request answered after two rejected invocations and a third that
\* resolved
C27_Witness ==
    /\ response.op = "azure"
    /\ response.code = 201
    /\ response.data.run.invoked = 3
    /\ response.data.run.result = 3
    /\ Len(store) >= 1
    /\ store[Len(store)].source = "azure"

\* C28: when the speech path fails after its retries, the request is not
\* failed: exactly one record, with source mock, is written and the answer
\* is a success; the request fails only when the write of the fallback
\* record fails, and then nothing is stored.
C28_FallbackRecord ==
    [][response'.op = "azure" =>
         \A env \in AzureEnvs :
            \A u \in AzureUrlInputs \ {NoVal}, l \in AzureLanguageInputs :
                PostAzureTranscription(u, l, env)
                => /\ (env.download /\ FirstSuccess(env.speech, 3) = 0) =>
                        IF env.fallbackSave
                        THEN /\ response'.code = 201
                             /\ Len(store') = Len(store) + 1
                             /\ \A i \in Ids : store'[i] = store[i]
                             /\ store'[Len(store')].source = "mock"
                             /\ store'[Len(store')].audioUrl = u
                        ELSE /\ response'.code = 500
                             /\ store' = store
                   /\ response'.code \notin {200, 201} =>
                        /\ ~env.fallbackSave
                        /\ store' = store
      ]_vars

\* a fallback record stored after three rejected invocations
C28_Witness ==
    /\ response.op = "azure"
    /\ response.code = 201
    /\ response.data.run.thrown = 3
    /\ response.data.message = "Transcription saved (fallback mode)"
    /\ Len(store) >= 1
    /\ store[Len(store)].source = "mock"

AutoEdges ==
    {<<"transcription", "review">>, <<"review", "approval">>,
     <<"approval", "completed">>}

\* C30: a timer run decides from the status the record has when it runs:
\* every transition it performs takes the record from its present status
\* along one of transcription -> review, review -> approval, approval ->
\* completed, the entry it appends is by "system", and it never moves a
\* record to rejected or back to transcription.
C30_AutoFromLiveStatus ==
    [][calls' # calls =>
         \A c \in BagToSet(calls) :
            (c.origin = "timer" /\ Save(c))
            => /\ <<store[c.id].workflowStatus, store'[c.id].workflowStatus>>
                     \in AutoEdges
               /\ Last(store'[c.id].workflowHistory).reviewedBy = "system"
               /\ store'[c.id].workflowStatus \notin {"rejected", "transcription"}
      ]_vars

\* the fields of a record a transition leaves alone
KeptFields == {"audioUrl", "language", "transcription", "source", "createdAt"}

\* C31: a successful transition on a record changes only its status, its
\* updatedAt and its history (one entry appended): its id, audioUrl,
\* language, transcription text and createdAt are as before, and every
\* other record is unchanged.
C31_TransitionFrame ==
    [][calls' # calls =>
         \A c \in BagToSet(calls) :
            Save(c) =>
               /\ Len(store') = Len(store)
               /\ \A f \in KeptFields : store'[c.id][f] = store[c.id][f]
               /\ store'[c.id].workflowStatus = c.newStatus
               /\ store'[c.id].updatedAt = c.doc.updatedAt
               /\ Len(store'[c.id].workflowHistory)
                     = Len(store[c.id].workflowHistory) + 1
               /\ IsPrefix(store[c.id].workflowHistory,
                           store'[c.id].workflowHistory)
               /\ \A id \in Ids \ {c.id} : store'[id] = store[id]
      ]_vars

\* the second of two workflows has been moved on a second after its
\* creation, next to the first one
C31_Witness ==
    /\ Len(store) = 2
    /\ Len(store[2].workflowHistory) = 2
    /\ store[2].updatedAt > store[2].createdAt
    /\ store[2].transcription = MockText
    /\ store[1].workflowStatus = "rejected"

\* the answers of the three read operations
ReadOps == {"status", "list", "stats"}

\* C32: getStatus, list and stats are read-only: a step that answers one
\* of them changes no record, starts no save and sets no timer; and the
\* status of a record changes only when the save of a transition call
\* (from a PUT request or from a timer) is applied to it.
C32_ReadsAreReadOnly ==
    [][/\ response'.op \in ReadOps =>
            UNCHANGED <<store, timers, firings, calls, succ, listing>>
       /\ \A id \in Ids :
            store'[id].workflowStatus # store[id].workflowStatus
            => \E c \in BagToSet(calls) :
                  /\ c.id = id
                  /\ c.origin \in {"manual", "timer"}
                  /\ Save(c)
      ]_vars

\* the status of a workflow with a pending timer has been read
C32_Witness ==
    /\ response.op = "status"
    /\ response.code = 200
    /\ response.data.currentStatus = "review"
    /\ \E t \in BagToSet(timers) : t.id = response.id

\* nothing of the running process concerns the record: no callback is
\* pending for it, no timer run and no transition call is under way
Quiet(id) ==
    /\ \A t \in BagToSet(timers) : t.id # id
    /\ \A f \in BagToSet(firings) : f.id # id
    /\ \A c \in BagToSet(calls) : c.id # id

\* C33: the pending timers live in the memory of the process: a restart
\* leaves none of them and changes no record, and a record for which
\* nothing is pending, as every record is after a restart, keeps its status
\* and has no timer until a PUT request moves it.
C33_TimersLostOnRestart ==
    [][/\ Restart => /\ timers' = EmptyBag
                     /\ firings' = EmptyBag
                     /\ calls' = EmptyBag
                     /\ store' = store
                     /\ \A id \in Ids : Quiet(id)'
       /\ \A id \in Ids :
            ( /\ Quiet(id)
              /\ \A c \in BagToSet(calls') : ~(c.id = id /\ c.origin = "manual") )
            => /\ Quiet(id)'
               /\ store'[id] = store[id]
      ]_vars

\* the workflow in review since the first second is still in review when
\* its timer would have been due: the process restarted in between
C33_Witness ==
    /\ now >= REVIEW_DELAY
    /\ timers = EmptyBag
    /\ InFlight = 0
    /\ \E id \in Ids :
          /\ store[id].workflowStatus = "review"
          /\ Len(store[id].workflowHistory) = 2

\* C34: GET /workflow/stats is served by the statistics handler, never by
\* the get-status handler with id "stats": whichever router is mounted, the
\* request is answered 200 with the statistics.
C34_StatsRouteFirst ==
    [][\A r \in Routers :
          Get(r, <<"workflow", "stats">>) =>
              /\ response'.op = "stats"
              /\ response'.code = 200]_vars

\* C35: the delay waited before attempt k+1 is min(1000 * 2^(k-1), 8000):
\* it doubles with each failed attempt until the cap, never decreases, never
\* exceeds 8000, and a run waits once after each failed attempt but the
\* third, after which it waits no more.
C35_BackoffDelays ==
  LET BackoffTable == <<1000, 2000, 4000, 8000, 8000, 8000>>
  IN
    /\ \A k \in 1..Len(BackoffTable) : calculateDelay(k) = BackoffTable[k]
    /\ response.op = "azure" =>
         LET run == response.data.run
         IN  /\ Len(run.waits) <= 2
             /\ run.invoked > 0 => Len(run.waits) = run.invoked - 1
             /\ \A k \in 1..Len(run.waits) :
                   /\ run.waits[k] = BackoffTable[k]
                   /\ run.waits[k] <= 8000
                   /\ k > 1 => /\ run.waits[k] >= run.waits[k - 1]
                               /\ run.waits[k] = 2 * run.waits[k - 1]

\* a request whose three invocations all rejected: two delays were waited,
\* none after the third rejection
C35_Witness ==
    /\ response.op = "azure"
    /\ ~response.data.run.ok
    /\ response.data.run.invoked = 3
    /\ response.data.run.thrown = 3
    /\ response.data.run.waits = <<1000, 2000>>

\* the number of callbacks pending for a record
PendingFor(id) ==
    LET ofId == {t \in BagToSet(timers) : t.id = id}
        RECURSIVE Sum(_)
        Sum(S) == IF S = {} THEN 0
                  ELSE LET t == CHOOSE x \in S : TRUE
                       IN  CopiesIn(t, timers) + Sum(S \ {t})
    IN  Sum(ofId)

\* C36: at any time at most one auto-progression timer is pending for a
\* record, whatever requests and timer firings came before.
C36_OneTimerPerRecord ==
    \A id \in Ids : PendingFor(id) <= 1

\* C37: with finitely many create and manual transition requests the system
\* comes to rest: from some moment on no timer is pending and no callback or
\* write is under way, so no status changes any more.
C37_Quiesces ==
    <>[](timers = EmptyBag /\ InFlight = 0)

\* at rest after a manual transition and timer runs that followed it
C37_Witness ==
    /\ timers = EmptyBag
    /\ InFlight = 0
    /\ nManual >= 1
    /\ \E id \in Ids :
          /\ store[id].workflowStatus = "completed"
          /\ \E i \in 1..Len(store[id].workflowHistory) :
                store[id].workflowHistory[i].reviewedBy = "test-user"
          /\ Last(store[id].workflowHistory).reviewedBy = "system"

\* C38: the timestamps of a record's history entries never decrease in
\* history order and updatedAt is never later than the timestamp of the last
\* entry, however manual transitions and timer runs interleave.
C38_HistoryTimeOrdered ==
    \A id \in Ids :
        LET h == store[id].workflowHistory
        IN  /\ \A i \in 1..(Len(h) - 1) : h[i].timestamp <= h[i + 1].timestamp
            /\ store[id].updatedAt # NoDate =>
                  store[id].updatedAt <= Last(h).timestamp

\* C39: every list answer is consistent in itself, also when creates and
\* transitions are served while it is computed: it holds at most `limit`
\* workflows and at most `total` workflows.
C39_ListConsistent ==
    (response.op = "list" /\ response.code = 200) =>
        /\ Len(response.data.workflows) <= response.data.limit
        /\ Len(response.data.workflows) <= response.data.total

====
